---- MODULE Spec2Model ----
(***************************************************************************)
(* Model of the Suppress HTTP routing library (SuppressController and      *)
(* Suppress).  A path or URL is a sequence of one-character strings, so    *)
(* that String.replace, String.split and String.startsWith are modelled by *)
(* what they do to the characters.                                         *)
(***************************************************************************)
EXTENDS Naturals, Sequences, FiniteSets, TLC

\* ------------------------------------------------------------------ bounds
\* Number of get/post/put/delete calls a behaviour may make.
MaxRegs == 2
\* Number of addController calls a behaviour may make.
MaxCtl == 1

\* ------------------------------------------------------ program constants
NOT_FOUND == 404
METHOD_NOT_ALLOWED == 405

\* HttpMethods: the four keys of ServerRoutesMap.
HttpMethods == {"GET", "POST", "PUT", "DELETE"}

\* JSON.stringify({ error: 'Route not found' })
RouteNotFoundBody == "{\"error\":\"Route not found\"}"
\* JSON.stringify({ error: 'Method not allowed' })
MethodNotAllowedBody == "{\"error\":\"Method not allowed\"}"

\* ------------------------------------------------------------ input sets
\* The Dispatcher (a Suppress instance, itself a Route Table) and a
\* separately constructed SuppressController instance.
Controllers == {"c1"}
Tables == {"root"} \cup Controllers

\* Handler functions the application registers; h2 raises synchronously
\* whenever it is called, h1 returns normally.
Handlers == {"h1", "h2"}
Throwing == {"h2"}
\* "No handler": the undefined that a failed lookup yields.
NoHandler == "undefined"

\* Paths given to get, post, put and delete on each table: RegPaths[m][t].
RegPaths ==
    [ m \in HttpMethods |-> [ t \in Tables |->
        CASE m = "GET" /\ t = "root" ->
               { <<"/">>, <<"/", "p">>, <<"/", "u", "/", "p">>,
                 <<"/", "/", "p">> }
          [] m = "GET" /\ t = "c1" ->
               { <<"/">>, <<"/", "p">>, <<"/", "u", "/", "p">> }
          [] m = "POST" -> { <<"/", "p">> }
          [] m = "PUT" /\ t = "c1" -> { <<"/", "p">> }
          [] m = "DELETE" /\ t = "root" -> { <<"/", "p">> }
          [] OTHER -> {} ] ]

\* Base paths given to addController: a single segment, the root, two
\* segments.
BasePaths == { <<"/", "u">>, <<"/">>, <<"/", "u", "/", "p">> }

\* req.url of the requests that arrive (the empty URL stands for a falsy
\* req.url).
Urls ==
    { <<>>, <<"/">>, <<"/", "p">>, <<"/", "u", "/">>,
      <<"/", "u", "/", "p">>, <<"/", "/", "p">>,
      <<"/", "/", "u", "/", "p">> }

\* The requests that arrive, as <<req.method, req.url>>.
Requests ==
    ({"GET"} \X Urls)
    \cup { <<"POST", <<"/", "p">> >>, <<"PUT", <<"/", "u", "/", "p">> >>,
           <<"DELETE", <<"/", "p">> >>,
           <<"PATCH", <<"/", "u", "/", "p">> >> }

\* ------------------------------------------------------ string functions
\* String.prototype.startsWith
StartsWith(s, pre) ==
    /\ Len(pre) <= Len(s)
    /\ SubSeq(s, 1, Len(pre)) = pre

\* String.prototype.indexOf, 1-based; 0 when pat does not occur in s.
IndexOf(s, pat) ==
    LET at == { i \in 1..(Len(s) + 1) :
                  /\ i + Len(pat) - 1 <= Len(s)
                  /\ SubSeq(s, i, i + Len(pat) - 1) = pat }
    IN  IF at = {} THEN 0 ELSE CHOOSE i \in at : \A j \in at : i <= j

\* s.replace(pat, ''): a string pattern replaces the first occurrence only,
\* wherever it is in s.
ReplaceFirst(s, pat) ==
    LET i == IndexOf(s, pat)
    IN  IF i = 0 THEN s
        ELSE SubSeq(s, 1, i - 1) \o SubSeq(s, i + Len(pat), Len(s))

\* s.split('/'): the pieces between the '/' characters, empty ones included.
RECURSIVE Split(_)
Split(s) ==
    LET i == IndexOf(s, <<"/">>)
    IN  IF i = 0 THEN << s >>
        ELSE << SubSeq(s, 1, i - 1) >> \o Split(SubSeq(s, i + 1, Len(s)))

\* .filter(Boolean) on an array of strings: the empty strings are dropped.
FilterBoolean(segs) == SelectSeq(segs, LAMBDA x : x # << >>)

\* req.url || '/'
UrlOrRoot(url) == IF url = << >> THEN <<"/">> ELSE url

\* ------------------------------------------------------------------ state
VARIABLES
    routes,       \* routes[t][m]: the object routes.<m> of table t, a
                  \* function from the path keys set so far to handlers
    controllers,  \* Suppress.controllers: Map from base path to controller
    listening,    \* whether server.listen has been called
    last,         \* the last call made or request served, and its outcome
    superseded,   \* history: <<t, m, path, h>> for each handler h that a
                  \* later registration replaced in routes[t][m][path]
    nregs,        \* number of get/post/put/delete calls so far
    nctl          \* number of addController calls so far

vars == << routes, controllers, listening, last, superseded, nregs, nctl >>

\* ------------------------------------------------------- SuppressController
\* A faulty SetKey: an existing key keeps its first value.
SetKey_KeepFirst(obj, path, handler) ==
    [ q \in (DOMAIN obj) \cup {path} |->
        IF q \in DOMAIN obj THEN obj[q] ELSE handler ]

\* A faulty SetKey: the object is replaced by one holding the new key only.
SetKey_Fresh(obj, path, handler) ==
    [ q \in {path} |-> handler ]

\* obj[path] = handler on a plain object.
SetKey(obj, path, handler) ==
    [ q \in (DOMAIN obj) \cup {path} |->
        IF q = path THEN handler ELSE obj[q] ]

\* A faulty EffectivePath: the leading-slash fix is left out.
EffectivePath_NoSlashFix(url, basePath) ==
    LET replaced == ReplaceFirst(url, basePath)
    IN  IF replaced = << >> THEN <<"/">> ELSE replaced

\* req.url?.replace(basePath, '') || '/', then the leading-slash fix.
EffectivePath(url, basePath) ==
    LET replaced == ReplaceFirst(url, basePath)
        path == IF replaced = << >> THEN <<"/">> ELSE replaced
    IN  IF StartsWith(path, <<"/">>) THEN path ELSE <<"/">> \o path

\* A faulty Lookup: the path is looked up under every method.
Lookup_AnyMethod(t, method, path) ==
    LET ms == { m \in HttpMethods : path \in DOMAIN routes[t][m] }
    IN  IF method \in HttpMethods /\ ms # {}
        THEN routes[t][CHOOSE m \in ms : TRUE][path]
        ELSE NoHandler

\* this.routes[method]?.[path]
Lookup(t, method, path) ==
    IF method \in HttpMethods /\ path \in DOMAIN routes[t][method]
    THEN routes[t][method][path]
    ELSE NoHandler

\* A faulty handleRequest: the handler call is wrapped in try/catch and a
\* caught error is answered with 500.
handleRequest_Catching(t, method, url, basePath) ==
    LET path == EffectivePath(url, basePath)
        routeHandler == Lookup(t, method, path)
    IN  IF routeHandler # NoHandler
        THEN [ table |-> t, basePath |-> basePath, path |-> path,
               handler |-> routeHandler,
               statusCode |-> IF routeHandler \in Throwing THEN 500 ELSE 0,
               body |-> "", error |-> FALSE ]
        ELSE [ table |-> t, basePath |-> basePath, path |-> path,
               handler |-> NoHandler, statusCode |-> NOT_FOUND,
               body |-> RouteNotFoundBody, error |-> FALSE ]

\* SuppressController.handleRequest on table t.  statusCode and body are
\* what the router itself writes to res (0 and "" when it writes nothing);
\* error says that an error raised by the handler left handleRequest.
handleRequest(t, method, url, basePath) ==
    LET path == EffectivePath(url, basePath)
        routeHandler == Lookup(t, method, path)
    IN  IF routeHandler # NoHandler
        THEN [ table |-> t, basePath |-> basePath, path |-> path,
               handler |-> routeHandler, statusCode |-> 0, body |-> "",
               error |-> routeHandler \in Throwing ]
        ELSE [ table |-> t, basePath |-> basePath, path |-> path,
               handler |-> NoHandler, statusCode |-> NOT_FOUND,
               body |-> RouteNotFoundBody, error |-> FALSE ]

\* ------------------------------------------------------------------ Suppress
\* A faulty BasePathOf: the whole path, not its first segment.
BasePathOf_WholePath(url) == UrlOrRoot(url)

\* segments.length > 0 ? `/${segments[0]}` : '/'
BasePathOf(url) ==
    LET segments == FilterBoolean(Split(UrlOrRoot(url)))
    IN  IF Len(segments) > 0 THEN <<"/">> \o segments[1] ELSE <<"/">>

\* A faulty handleRootRequest: the method check is left out.
handleRootRequest_NoMethodCheck(method, url) ==
    LET basePath == BasePathOf(url)
    IN  IF basePath \in DOMAIN controllers
        THEN handleRequest(controllers[basePath], method, url, basePath)
        ELSE handleRequest("root", method, url, <<"/">>)

\* A faulty handleRootRequest: the sub-table is given '/' to strip.
handleRootRequest_NoStrip(method, url) ==
    IF method \notin HttpMethods
    THEN [ table |-> "none", basePath |-> << >>, path |-> << >>,
           handler |-> NoHandler, statusCode |-> METHOD_NOT_ALLOWED,
           body |-> MethodNotAllowedBody, error |-> FALSE ]
    ELSE LET basePath == BasePathOf(url)
         IN  IF basePath \in DOMAIN controllers
             THEN handleRequest(controllers[basePath], method, url, <<"/">>)
             ELSE handleRequest("root", method, url, <<"/">>)

\* A faulty handleRootRequest: the sub-table is chosen by the longest
\* registered base path that is a prefix of the request path.
handleRootRequest_PrefixMatch(method, url) ==
    IF method \notin HttpMethods
    THEN [ table |-> "none", basePath |-> << >>, path |-> << >>,
           handler |-> NoHandler, statusCode |-> METHOD_NOT_ALLOWED,
           body |-> MethodNotAllowedBody, error |-> FALSE ]
    ELSE LET ks == { k \in DOMAIN controllers :
                       StartsWith(UrlOrRoot(url), k) }
         IN  IF ks # {}
             THEN LET k == CHOOSE k \in ks : \A j \in ks : Len(j) <= Len(k)
                  IN  handleRequest(controllers[k], method, url, k)
             ELSE handleRequest("root", method, url, <<"/">>)

\* Suppress.handleRootRequest
handleRootRequest(method, url) ==
    IF method \notin HttpMethods
    THEN [ table |-> "none", basePath |-> << >>, path |-> << >>,
           handler |-> NoHandler, statusCode |-> METHOD_NOT_ALLOWED,
           body |-> MethodNotAllowedBody, error |-> FALSE ]
    ELSE LET basePath == BasePathOf(url)
         IN  IF basePath \in DOMAIN controllers
             THEN handleRequest(controllers[basePath], method, url,
                                basePath)
             ELSE handleRequest("root", method, url, <<"/">>)

\* ------------------------------------------------------------------ actions
Init ==
    /\ routes = [ t \in Tables |-> [ m \in HttpMethods |-> << >> ] ]
    /\ controllers = << >>
    /\ listening = FALSE
    /\ last = [ kind |-> "new" ]
    /\ superseded = {}
    /\ nregs = 0
    /\ nctl = 0

\* this.routes.<method>[path] = handler, the body of get, post, put, delete.
Register(t, method, path, handler) ==
    /\ nregs' = nregs + 1
    /\ routes' = [ routes EXCEPT ![t][method] = SetKey(@, path, handler) ]
    /\ superseded' =
         ( superseded \cup
             ( IF path \in DOMAIN routes[t][method]
               THEN { << t, method, path, routes[t][method][path] >> }
               ELSE {} ) )
         \ { << t, method, path, handler >> }
    /\ last' = [ kind |-> "register", table |-> t, method |-> method,
                 path |-> path, handler |-> handler ]
    /\ UNCHANGED << controllers, listening, nctl >>

get(t, path, handler) ==
    /\ nregs < MaxRegs
    /\ Register(t, "GET", path, handler)

post(t, path, handler) ==
    /\ nregs < MaxRegs
    /\ Register(t, "POST", path, handler)

put(t, path, handler) ==
    /\ nregs < MaxRegs
    /\ Register(t, "PUT", path, handler)

delete(t, path, handler) ==
    /\ nregs < MaxRegs
    /\ Register(t, "DELETE", path, handler)

\* this.controllers.set(basePath, controller)
addController(basePath, controller) ==
    /\ nctl < MaxCtl
    /\ nctl' = nctl + 1
    /\ controllers' = SetKey(controllers, basePath, controller)
    /\ last' = [ kind |-> "addController", basePath |-> basePath,
                 controller |-> controller ]
    /\ UNCHANGED << routes, listening, superseded, nregs >>

\* this.server.listen(port, ...): a second call raises and changes nothing.
listen ==
    /\ ~listening
    /\ listening' = TRUE
    /\ last' = [ kind |-> "listen" ]
    /\ UNCHANGED << routes, controllers, superseded, nregs, nctl >>

\* The createServer callback: one request served by handleRootRequest.
Request(method, url) ==
    /\ listening
    /\ last' = [ kind |-> "request", method |-> method, url |-> url,
                 res |-> handleRootRequest(method, url) ]
    /\ UNCHANGED << routes, controllers, listening, superseded, nregs, nctl >>

Next ==
    \/ \E t \in Tables :
         \E path \in RegPaths["GET"][t], handler \in Handlers :
           get(t, path, handler)
    \/ \E t \in Tables :
         \E path \in RegPaths["POST"][t], handler \in Handlers :
           post(t, path, handler)
    \/ \E t \in Tables :
         \E path \in RegPaths["PUT"][t], handler \in Handlers :
           put(t, path, handler)
    \/ \E t \in Tables :
         \E path \in RegPaths["DELETE"][t], handler \in Handlers :
           delete(t, path, handler)
    \/ \E basePath \in BasePaths, controller \in Controllers :
         addController(basePath, controller)
    \/ listen
    \/ \E r \in Requests : Request(r[1], r[2])

Spec == Init /\ [][Next]_vars

\* ------------------------------------------------- vocabulary of the claims
IsRequest == last.kind = "request"

\* A request with one of the four recognised methods was served last.
IsRouted == IsRequest /\ last.method \in HttpMethods

\* '/' followed by the first non-empty '/'-delimited segment of u, or '/'
\* when u has none: read off the characters of u directly.
SegmentBase(u) ==
    LET nz == { i \in 1..Len(u) : u[i] # "/" }
    IN  IF nz = {} THEN <<"/">>
        ELSE LET a == CHOOSE i \in nz : \A j \in nz : i <= j
                 e == CHOOSE i \in a..Len(u) :
                        /\ \A j \in a..i : u[j] # "/"
                        /\ i = Len(u) \/ u[i + 1] = "/"
             IN  <<"/">> \o SubSeq(u, a, e)

\* b is '/' followed by one non-empty segment that contains no '/'.
SingleSegment(b) ==
    /\ Len(b) >= 2
    /\ b[1] = "/"
    /\ \A i \in 2..Len(b) : b[i] # "/"

\* x with a '/' prepended unless it starts with one.
WithLeadingSlash(x) == IF StartsWith(x, <<"/">>) THEN x ELSE <<"/">> \o x

\* u without its prefix b when b is a prefix of u, else u.
WithoutPrefix(u, b) ==
    IF StartsWith(u, b) THEN SubSeq(u, Len(b) + 1, Len(u)) ELSE u

\* The path of the request served last: '/' stands in for a falsy req.url.
RequestPath == IF last.url = << >> THEN <<"/">> ELSE last.url

\* The router wrote nothing to the response.
RouterSilent == last.res.statusCode = 0 /\ last.res.body = ""

\* The router answered 404 Route not found and called no handler.
Answered404 ==
    /\ last.res.handler = NoHandler
    /\ last.res.statusCode = 404
    /\ last.res.body = "{\"error\":\"Route not found\"}"

\* ------------------------------------------------------------------- C1
\* C1 as stated: whenever the request served last has the method and
\* exactly the path of a handler registered on any Route Table (path
\* beginning with '/'), that handler was invoked and the router wrote
\* no 404 or 405.
C1_AsStated ==
    IsRouted =>
      \A t \in Tables :
        ( /\ last.url \in DOMAIN routes[t][last.method]
          /\ StartsWith(last.url, <<"/">>) )
        => ( /\ last.res.handler = routes[t][last.method][last.url]
             /\ RouterSilent )

\* C1 amended: a handler registered on the root table under (method, path),
\* path beginning with exactly one '/', is invoked by a request with that
\* method and path, from the root table and with no 404 or 405 written,
\* whenever no sub-table is registered under the path's first segment.
C1_RootRoute ==
    ( /\ IsRouted
      /\ last.url \in DOMAIN routes["root"][last.method]
      /\ StartsWith(last.url, <<"/">>)
      /\ ~StartsWith(last.url, <<"/", "/">>)
      /\ SegmentBase(last.url) \notin DOMAIN controllers )
    => ( /\ last.res.handler = routes["root"][last.method][last.url]
         /\ last.res.table = "root"
         /\ RouterSilent )

\* A root route of two segments served while a sub-table is registered
\* under another base path and holds a handler for the same method.
C1_Witness ==
    /\ IsRouted
    /\ last.url = <<"/", "u", "/", "p">>
    /\ last.url \in DOMAIN routes["root"][last.method]
    /\ DOMAIN controllers = { <<"/">> }
    /\ routes["c1"][last.method] # << >>
    /\ last.res.handler = routes["root"][last.method][last.url]

\* ------------------------------------------------------------------- C2
\* C2 as stated: for a recognised method, when the request path is not a
\* key under that method in the table the request was dispatched to, no
\* handler was invoked and the answer is 404 Route not found; and a
\* request to '/' with no '/' handler for the method in the root table
\* is answered 404.
C2_AsStated ==
    IsRouted =>
      /\ RequestPath \notin DOMAIN routes[last.res.table][last.method]
           => Answered404
      /\ ( /\ RequestPath = <<"/">>
           /\ <<"/">> \notin DOMAIN routes["root"][last.method] )
           => Answered404

\* C2 amended: for a recognised method, when the path looked up (the
\* request path after the strip and the leading-slash fix) is not a key
\* under that method in the table the request was dispatched to, no
\* handler was invoked and the answer is 404 Route not found; and a
\* request to '/' is answered 404, never 405, when the root table has no
\* '/' handler for the method and no sub-table is registered under '/'.
C2_NotFound ==
    IsRouted =>
      /\ last.res.path \notin DOMAIN routes[last.res.table][last.method]
           => Answered404
      /\ ( /\ RequestPath = <<"/">>
           /\ <<"/">> \notin DOMAIN routes["root"][last.method]
           /\ <<"/">> \notin DOMAIN controllers )
           => ( Answered404 /\ last.res.table = "root" )

\* A request under a registered sub-table whose stripped path is not a key
\* of that sub-table, although the sub-table has routes for the method and
\* the root table holds a handler for the full request path.
C2_Witness ==
    /\ IsRouted
    /\ last.res.table = "c1"
    /\ routes["c1"][last.method] # << >>
    /\ last.url \in DOMAIN routes["root"][last.method]
    /\ last.res.path \notin DOMAIN routes["c1"][last.method]
    /\ last.res.statusCode = 404

\* ------------------------------------------------------------------- C3
\* C3: a request whose method is not GET, POST, PUT or DELETE is answered
\* 405 Method not allowed, calls no handler and consults no Route Table,
\* whatever its path and whatever is registered.
C3_MethodNotAllowed ==
    ( IsRequest /\ last.method \notin {"GET", "POST", "PUT", "DELETE"} )
    => ( /\ last.res.statusCode = 405
         /\ last.res.body = "{\"error\":\"Method not allowed\"}"
         /\ last.res.handler = NoHandler
         /\ last.res.table = "none" )

\* PATCH /u/p answered 405 although a sub-table is registered under /u
\* and the root table has routes.
C3_Witness ==
    /\ IsRequest
    /\ last.method = "PATCH"
    /\ last.url = <<"/", "u", "/", "p">>
    /\ <<"/", "u">> \in DOMAIN controllers
    /\ \E m \in HttpMethods : routes["root"][m] # << >>
    /\ last.res.statusCode = 405

C5_AsStated ==
    IsRouted =>
      \A b \in DOMAIN controllers :
        \A p \in DOMAIN routes[controllers[b]][last.method] :
          ( SingleSegment(b) /\ StartsWith(p, <<"/">>) ) =>
            /\ last.url = b \o p =>
                 /\ last.res.handler = routes[controllers[b]][last.method][p]
                 /\ last.res.basePath = b
                 /\ last.res.path = p
            /\ last.url = p => last.res.table = "root"

\* C5 amended: the request for b followed by p invokes h with exactly b
\* stripped; the request for p alone is looked up at the root table
\* provided no sub-table is registered under the first segment of p
\* itself (under '/' when p has no segment).
C5_SubTable ==
    IsRouted =>
      \A b \in DOMAIN controllers :
        \A p \in DOMAIN routes[controllers[b]][last.method] :
          ( SingleSegment(b) /\ StartsWith(p, <<"/">>) ) =>
            /\ last.url = b \o p =>
                 /\ last.res.handler = routes[controllers[b]][last.method][p]
                 /\ last.res.basePath = b
                 /\ last.res.path = p
            /\ ( last.url = p /\ SegmentBase(p) \notin DOMAIN controllers )
                 => last.res.table = "root"

\* GET /u/p served by the handler registered for /p in the sub-table
\* under /u, while the root table holds another handler for /u/p.
C5_Witness ==
    /\ IsRouted
    /\ last.url = <<"/", "u", "/", "p">>
    /\ <<"/", "u">> \in DOMAIN controllers
    /\ <<"/", "p">> \in DOMAIN routes["c1"][last.method]
    /\ last.url \in DOMAIN routes["root"][last.method]
    /\ routes["root"][last.method][last.url]
         # routes["c1"][last.method][<<"/", "p">>]
    /\ last.res.handler = routes["c1"][last.method][<<"/", "p">>]

\* The second half of C5: /p is registered in the sub-table under /u, and
\* a request for /p alone went to the root table.
C5_WitnessAlone ==
    /\ IsRouted
    /\ last.url = <<"/", "p">>
    /\ <<"/", "u">> \in DOMAIN controllers
    /\ <<"/", "p">> \in DOMAIN routes["c1"][last.method]
    /\ last.res.table = "root"

\* ------------------------------------------------------------------- C6
\* C6: a request with a recognised method is dispatched by basePath, '/'
\* followed by the first non-empty segment of its path or '/' when there
\* is none: to the sub-table registered under exactly basePath, with
\* basePath as the prefix to strip, and then the root table is not
\* consulted; otherwise to the root table with '/' as the prefix.
C6_Selection ==
    IsRouted =>
      LET basePath == SegmentBase(last.url)
      IN  IF basePath \in DOMAIN controllers
          THEN /\ last.res.table = controllers[basePath]
               /\ last.res.table # "root"
               /\ last.res.basePath = basePath
          ELSE /\ last.res.table = "root"
               /\ last.res.basePath = <<"/">>

\* A request dispatched to the sub-table under /u and answered 404 there
\* although the root table holds a handler for the full request path.
C6_Witness ==
    /\ IsRouted
    /\ last.url = <<"/", "u", "/", "p">>
    /\ last.url \in DOMAIN routes["root"][last.method]
    /\ last.res.table = "c1"
    /\ last.res.basePath = <<"/", "u">>
    /\ last.res.handler = NoHandler

\* ------------------------------------------------------------------- C7
\* C7 as stated: the path looked up is the request path u with its
\* leading occurrence of the prefix to strip b removed, only when b is a
\* prefix of u, and a '/' prepended when the result does not start with
\* '/'; no other character of u is removed.
C7_AsStated ==
    IsRouted =>
      last.res.path
        = WithLeadingSlash(WithoutPrefix(last.url, last.res.basePath))

\* ------------------------------------------------------------------- C8
\* C8: when the matched handler raises synchronously the error leaves
\* handleRequest and handleRootRequest, the router writes no status code
\* and no body for the request, and the route tables and the sub-table
\* registry are as they were.
C8_Propagates ==
    [][ ( last'.kind = "request" /\ last'.res.handler \in Throwing )
        => ( /\ last'.res.error
             /\ last'.res.statusCode = 0
             /\ last'.res.body = ""
             /\ routes' = routes
             /\ controllers' = controllers ) ]_vars

\* A request matched the raising handler h2 in a sub-table.
C8_Witness ==
    /\ IsRouted
    /\ last.res.table = "c1"
    /\ last.res.handler = "h2"
    /\ last.res.error

\* ------------------------------------------------------------------- C9
\* The keys of table t under method m.
Keys(r, t, m) == DOMAIN r[t][m]

\* C9: every Route Table starts empty for all four methods; in every step
\* no table loses a key; a registration sets the entry of its own
\* (method, path) in its own table and changes no other entry, no other
\* table and not the registry; a request, whatever its outcome, changes
\* no table and no registry entry.
C9_Frame ==
    /\ \A t \in Tables : \A m \in {"GET", "POST", "PUT", "DELETE"} :
         Keys(routes, t, m) = {}
    /\ [][ /\ \A t \in Tables : \A m \in HttpMethods :
                Keys(routes, t, m) \subseteq Keys(routes', t, m)
           /\ IF last'.kind = "register"
              THEN /\ controllers' = controllers
                   /\ routes'[last'.table][last'.method][last'.path]
                        = last'.handler
                   /\ \A t \in Tables : \A m \in HttpMethods :
                        IF t = last'.table /\ m = last'.method
                        THEN /\ Keys(routes', t, m)
                                  = Keys(routes, t, m) \cup { last'.path }
                             /\ \A q \in Keys(routes, t, m) \ { last'.path } :
                                  routes'[t][m][q] = routes[t][m][q]
                        ELSE routes'[t][m] = routes[t][m]
              ELSE /\ routes' = routes
                   /\ last'.kind \in {"request", "listen"}
                        => controllers' = controllers ]_vars

\* A registration was made on a table that already held another key for
\* the same method, while a sub-table was registered.
C9_Witness ==
    /\ last.kind = "register"
    /\ Cardinality(Keys(routes, last.table, last.method)) = 2
    /\ controllers # << >>

====
